---- MODULE Spec2Model ----
(***************************************************************************)
(* Panel lifecycle of the Sitronix ST7703 DSI panel driver                 *)
(* (drivers/gpu/drm/panel/panel-sitronix-st7703.c).                        *)
(*                                                                         *)
(* The driver's handlers are modelled step by step: one action per call    *)
(* the handler makes into the regulator, GPIO or DSI layer, with the       *)
(* result of that call chosen by the environment.  pc is the position of   *)
(* the calling thread inside the handler, stack the return positions of    *)
(* the callers (allpixelson_set calls the four panel operations).          *)
(*                                                                         *)
(* log records, for the call in progress (or the last one finished), every *)
(* regulator, GPIO, sleep and bus operation in the order it was made.      *)
(***************************************************************************)
EXTENDS Integers, Sequences, FiniteSets, TLC

\* ------------------------------------------------------------------------
\* Bounds of the model
\* ------------------------------------------------------------------------

\* A lifecycle call is started only while each regulator's use count is
\* below this cap (the use counts are unbounded in the kernel).
MaxUse == 2

\* ------------------------------------------------------------------------
\* Program constants
\* ------------------------------------------------------------------------

ST7703_CMD_ALL_PIXEL_ON == 35  \* 0x23
ST7703_CMD_SETDISP == 178  \* 0xB2
ST7703_CMD_SETRGBIF == 179  \* 0xB3
ST7703_CMD_SETCYC == 180  \* 0xB4
ST7703_CMD_SETBGP == 181  \* 0xB5
ST7703_CMD_SETVCOM == 182  \* 0xB6
ST7703_CMD_SETPOWER_EXT == 184  \* 0xB8
ST7703_CMD_SETEXTC == 185  \* 0xB9
ST7703_CMD_SETMIPI == 186  \* 0xBA
ST7703_CMD_SETVDC == 188  \* 0xBC
ST7703_CMD_UNKNOWN_BF == 191  \* 0xBF
ST7703_CMD_SETSCR == 192  \* 0xC0
ST7703_CMD_SETPOWER == 193  \* 0xC1
ST7703_CMD_UNKNOWN_C6 == 198  \* 0xC6
ST7703_CMD_SETIO == 199  \* 0xC7
ST7703_CMD_SETCABC == 200  \* 0xC8
ST7703_CMD_SETPANEL == 204  \* 0xCC
ST7703_CMD_SETGAMMA == 224  \* 0xE0
ST7703_CMD_SETEQ == 227  \* 0xE3
ST7703_CMD_SETGIP1 == 233  \* 0xE9
ST7703_CMD_SETGIP2 == 234  \* 0xEA
ST7703_CMD_UNKNOWN_EF == 239  \* 0xEF

\* Register read by readInfo().
READINFO_REG == 218  \* 0xDA

\* The compatible strings of st7703_of_match.
Variants == {"rocktech,jh057n00900", "xingbangda,xbd599", "dlc,dlc350v11"}

\* Negative errno values a DSI transfer can report (-EIO, -ETIMEDOUT).
BusErrs == {-5, -110}

\* Negative errno values a regulator call can report (-EINVAL).
RailErrs == {-22}

\* Values written to the allpixelson debugfs file (seconds): two seconds,
\* and the smallest value whose product with 1000 exceeds 32 bits.
Durations == {2, 4294968}

\* ------------------------------------------------------------------------
\* Init sequences: the items of each variant's init_sequence function, in
\* program order.
\* ------------------------------------------------------------------------

\* dsi_generic_write_seq(dsi, cmd, data...): d[] = {cmd, data...}
GenericWrite(cmd, data) == [kind |-> "generic", cmd |-> cmd, data |-> data, ms |-> 0]

\* dsi_dcs_write_seq(dsi, cmd, data...): d[] = {data...}, msleep(20) after
DcsWrite(cmd, data) == [kind |-> "dcs", cmd |-> cmd, data |-> data, ms |-> 20]

\* msleep(ms) between two commands of an init sequence
Delay(ms) == [kind |-> "msleep", cmd |-> 0, data |-> << >>, ms |-> ms]

jh057n_init_sequence ==
    <<
        GenericWrite(ST7703_CMD_SETEXTC, <<\hF1, \h12, \h83>>),
        GenericWrite(ST7703_CMD_SETRGBIF, <<\h10, \h10, \h05, \h05, \h03,
            \hFF, \h00, \h00, \h00, \h00>>),
        GenericWrite(ST7703_CMD_SETSCR, <<\h73, \h73, \h50, \h50, \h00, \h00,
            \h08, \h70, \h00>>),
        GenericWrite(ST7703_CMD_SETVDC, <<\h4E>>),
        GenericWrite(ST7703_CMD_SETPANEL, <<\h0B>>),
        GenericWrite(ST7703_CMD_SETCYC, <<\h80>>),
        GenericWrite(ST7703_CMD_SETDISP, <<\hF0, \h12, \h30>>),
        GenericWrite(ST7703_CMD_SETEQ, <<\h07, \h07, \h0B, \h0B, \h03, \h0B,
            \h00, \h00, \h00, \h00, \hFF, \h00, \hC0, \h10>>),
        GenericWrite(ST7703_CMD_SETBGP, <<\h08, \h08>>),
        Delay(20),
        GenericWrite(ST7703_CMD_SETVCOM, <<\h3F, \h3F>>),
        GenericWrite(ST7703_CMD_UNKNOWN_BF, <<\h02, \h11, \h00>>),
        GenericWrite(ST7703_CMD_SETGIP1, <<\h82, \h10, \h06, \h05, \h9E, \h0A,
            \hA5, \h12, \h31, \h23, \h37, \h83, \h04, \hBC, \h27, \h38, \h0C,
            \h00, \h03, \h00, \h00, \h00, \h0C, \h00, \h03, \h00, \h00, \h00,
            \h75, \h75, \h31, \h88, \h88, \h88, \h88, \h88, \h88, \h13, \h88,
            \h64, \h64, \h20, \h88, \h88, \h88, \h88, \h88, \h88, \h02, \h88,
            \h00, \h00, \h00, \h00, \h00, \h00, \h00, \h00, \h00, \h00, \h00,
            \h00, \h00>>),
        GenericWrite(ST7703_CMD_SETGIP2, <<\h02, \h21, \h00, \h00, \h00, \h00,
            \h00, \h00, \h00, \h00, \h00, \h00, \h02, \h46, \h02, \h88, \h88,
            \h88, \h88, \h88, \h88, \h64, \h88, \h13, \h57, \h13, \h88, \h88,
            \h88, \h88, \h88, \h88, \h75, \h88, \h23, \h14, \h00, \h00, \h02,
            \h00, \h00, \h00, \h00, \h00, \h00, \h00, \h00, \h00, \h00, \h00,
            \h00, \h00, \h00, \h00, \h30, \h0A, \hA5, \h00, \h00, \h00,
            \h00>>),
        GenericWrite(ST7703_CMD_SETGAMMA, <<\h00, \h09, \h0E, \h29, \h2D,
            \h3C, \h41, \h37, \h07, \h0B, \h0D, \h10, \h11, \h0F, \h10, \h11,
            \h18, \h00, \h09, \h0E, \h29, \h2D, \h3C, \h41, \h37, \h07, \h0B,
            \h0D, \h10, \h11, \h0F, \h10, \h11, \h18>>)
    >>

xbd599_init_sequence ==
    << >>

p0500063b_init_sequence ==
    <<
        DcsWrite(ST7703_CMD_SETEXTC, <<\hF1, \h12, \h83>>),
        DcsWrite(\hB1, <<\h00, \h00, \h00, \hDA, \h80>>),
        DcsWrite(ST7703_CMD_SETDISP, <<\h78, \h13, \hF0>>),
        DcsWrite(ST7703_CMD_SETRGBIF, <<\h1A, \h1E, \h28, \h28, \h03, \hFF,
            \h00, \h00, \h00, \h00>>),
        DcsWrite(ST7703_CMD_SETCYC, <<\h80>>),
        DcsWrite(ST7703_CMD_SETBGP, <<\h10, \h10>>),
        DcsWrite(ST7703_CMD_SETVCOM, <<\h48, \h48>>),
        DcsWrite(ST7703_CMD_SETPOWER_EXT, <<\h2E, \h22, \hF0, \h13>>),
        DcsWrite(ST7703_CMD_SETMIPI, <<\h33, \h81, \h05, \hF9, \h0E, \h0E,
            \h20, \h00, \h00, \h00, \h00, \h00, \h00, \h00, \h44, \h25, \h00,
            \h90, \h0A, \h00, \h00, \h01, \h4F, \h01, \h00, \h00, \h37>>),
        DcsWrite(ST7703_CMD_SETVDC, <<\h4F>>),
        DcsWrite(ST7703_CMD_UNKNOWN_BF, <<\h02, \h11, \h00>>),
        DcsWrite(ST7703_CMD_SETSCR, <<\h73, \h73, \h50, \h50, \h00, \h00,
            \h12, \h70, \h00>>),
        DcsWrite(ST7703_CMD_SETPOWER, <<\h64, \hC1, \h2C, \h2C, \h77, \hE4,
            \hCF, \hCF, \h7E, \h7E, \h3E, \h3E>>),
        DcsWrite(ST7703_CMD_UNKNOWN_C6, <<\h82, \h00, \hBF, \hFF, \h00,
            \hFF>>),
        DcsWrite(ST7703_CMD_SETIO, <<\hB8, \h00, \h0A, \h00, \h00, \h00>>),
        DcsWrite(ST7703_CMD_SETCABC, <<\h10, \h40, \h1E, \h02>>),
        DcsWrite(ST7703_CMD_SETPANEL, <<\h0B>>),
        DcsWrite(ST7703_CMD_SETGAMMA, <<\h00, \h0B, \h10, \h24, \h29, \h38,
            \h44, \h39, \h0A, \h0D, \h0D, \h12, \h14, \h13, \h15, \h10, \h15,
            \h00, \h0B, \h10, \h24, \h29, \h38, \h44, \h39, \h0A, \h0D, \h0D,
            \h12, \h14, \h13, \h15, \h10, \h15>>),
        DcsWrite(ST7703_CMD_SETEQ, <<\h07, \h07, \h0B, \h0B, \h0B, \h0B, \h00,
            \h00, \h00, \h00, \hFF, \h00, \hC0, \h10>>),
        DcsWrite(ST7703_CMD_SETGIP1, <<\hC8, \h10, \h11, \h03, \hC3, \h80,
            \h81, \h12, \h31, \h23, \hAF, \h8E, \hAD, \h6D, \h8F, \h10, \h03,
            \h00, \h19, \h00, \h00, \h00, \h03, \h00, \h19, \h00, \h00, \h00,
            \h9F, \h84, \h6A, \hB6, \h48, \h20, \h64, \h20, \h20, \h88, \h88,
            \h9F, \h85, \h7A, \hB7, \h58, \h31, \h75, \h31, \h31, \h88, \h88,
            \h00, \h00, \h00, \h00, \h00, \h80, \h81, \h5F, \h00, \h00, \h00,
            \h00, \h00, \h00, \h00>>),
        DcsWrite(ST7703_CMD_SETGIP2, <<\h96, \h1C, \h01, \h01, \h00, \h00,
            \h01, \h00, \h00, \h00, \h00, \h00, \h98, \hF3, \h1A, \hB1, \h38,
            \h57, \h13, \h57, \h57, \h88, \h88, \h98, \hF2, \h0A, \hB0, \h28,
            \h46, \h02, \h46, \h46, \h88, \h88, \h23, \h10, \h00, \h00, \hF4,
            \h00, \h00, \h00, \h00, \h00, \h00, \h0D, \h80, \h00, \hF0, \h00,
            \h03, \hCF, \h12, \h30, \h70, \h80, \h81, \h40, \h80, \h81, \h00,
            \h00, \h00, \h00>>),
        DcsWrite(ST7703_CMD_UNKNOWN_EF, <<\hFF, \hFF, \h01>>)
    >>


\* ------------------------------------------------------------------------
\* Variant descriptors
\* ------------------------------------------------------------------------

jh057n00900_panel_desc ==
    [lanes |-> 4,
     mode_flags |-> {"MIPI_DSI_MODE_VIDEO", "MIPI_DSI_MODE_VIDEO_BURST",
                     "MIPI_DSI_MODE_VIDEO_SYNC_PULSE"},
     format |-> "MIPI_DSI_FMT_RGB888",
     init_sequence |-> jh057n_init_sequence]

xbd599_desc ==
    [lanes |-> 4,
     mode_flags |-> {"MIPI_DSI_MODE_VIDEO", "MIPI_DSI_MODE_VIDEO_SYNC_PULSE"},
     format |-> "MIPI_DSI_FMT_RGB888",
     init_sequence |-> xbd599_init_sequence]

p0500063b_desc ==
    [lanes |-> 4,
     mode_flags |-> {"MIPI_DSI_MODE_VIDEO", "MIPI_DSI_MODE_VIDEO_SYNC_PULSE"},
     format |-> "MIPI_DSI_FMT_RGB888",
     init_sequence |-> p0500063b_init_sequence]

\* of_device_get_match_data(): the descriptor of a compatible string
st7703_of_match(compatible) ==
    CASE compatible = "rocktech,jh057n00900" -> jh057n00900_panel_desc
      [] compatible = "xingbangda,xbd599" -> xbd599_desc
      [] compatible = "dlc,dlc350v11" -> p0500063b_desc

\* ------------------------------------------------------------------------
\* State
\* ------------------------------------------------------------------------

VARIABLES
    compatible,   \* the compatible string the device was matched by
    vcc,          \* TRUE iff ctx->vcc is a valid regulator handle
    iovcc,        \* TRUE iff ctx->iovcc is a valid regulator handle
    prepared,     \* ctx->prepared
    reset_gpio,   \* logical value of the reset line (1 = asserted)
    mode_flags,   \* dsi->mode_flags
    lanes,        \* dsi->lanes
    format,       \* dsi->format
    vcc_use,      \* enables minus disables the vcc regulator has accepted
    iovcc_use,    \* enables minus disables the iovcc regulator has accepted
    pc,           \* position of the calling thread
    stack,        \* return positions of the callers
    idx,          \* index of the next item of the init sequence
    ret,          \* local ret of the running handler / last returned value
    val,          \* the argument of allpixelson_set
    enabled,      \* observer: st7703_enable has returned 0 since power-up
    log,          \* observer: operations made by the call, in order
    last,         \* observer: the operation the caller invoked
    pre,          \* observer: the state when the caller invoked it
    recovery,     \* observer: the call's position in a recovery (0: none)
    other,        \* the thread not running: its name, pc, stack, idx, ret, val
    switches      \* number of context switches made

vars == <<compatible, vcc, iovcc, prepared, reset_gpio, mode_flags, lanes,
          format, vcc_use, iovcc_use, pc, stack, idx, ret, val, enabled,
          log, last, pre, recovery, other, switches>>

config == <<compatible, vcc, iovcc>>
dsi == <<mode_flags, lanes, format>>
rails == <<vcc_use, iovcc_use>>
observers == <<last, pre, recovery>>
threads == <<other, switches>>

\* ctx->desc
desc == st7703_of_match(compatible)

\* The lifecycle state as the caller sees it.
PanelState ==
    IF enabled THEN "Enabled"
    ELSE IF prepared THEN "Prepared"
    ELSE "Unprepared"

Snapshot ==
    [prepared |-> prepared, enabled |-> enabled, state |-> PanelState,
     reset_gpio |-> reset_gpio, vcc_use |-> vcc_use,
     iovcc_use |-> iovcc_use, mode_flags |-> mode_flags]

\* One logged operation.
Ev(op, arg, res) == [op |-> op, arg |-> arg, res |-> res]

\* State after st7703_probe has returned 0.
Init ==
    /\ compatible \in Variants
    /\ vcc \in BOOLEAN
    /\ iovcc \in BOOLEAN
    /\ prepared = FALSE
    /\ reset_gpio = 0
    /\ mode_flags = desc.mode_flags
    /\ lanes = desc.lanes
    /\ format = desc.format
    /\ vcc_use = 0
    /\ iovcc_use = 0
    /\ pc = "idle"
    /\ stack = << >>
    /\ idx = 0
    /\ ret = 0
    /\ val = 0
    /\ enabled = FALSE
    /\ log = << >>
    /\ last = "none"
    /\ pre = Snapshot
    /\ recovery = 0
    /\ other = [thread |-> "debugfs", pc |-> "idle", stack |-> << >>,
                idx |-> 0, ret |-> 0, val |-> 0]
    /\ switches = 0

\* ------------------------------------------------------------------------
\* Calls and returns
\* ------------------------------------------------------------------------

\* return r;
Return(r) ==
    /\ ret' = r
    /\ pc' = Head(stack)
    /\ stack' = Tail(stack)

\* A nested call: run fn, then continue at position next.
Call(fn, next) ==
    /\ pc' = fn
    /\ stack' = <<next>> \o stack

\* No operation of the call reported an error.
FaultFree == \A i \in DOMAIN log : log[i].res >= 0

\* The position of a call of fn in the recovery from a failed enable():
\* 1 for a disable() that follows an enable() in which a step failed, then
\* 2, 3, 4 for unprepare(), prepare(), enable() called in this order, each
\* after a call in which nothing failed; 0 for any other call.
RecoveryStep(fn) ==
    IF fn = "disable" /\ last = "enable" /\ (ret < 0 \/ ~FaultFree) THEN 1
    ELSE IF recovery = 1 /\ FaultFree /\ fn = "unprepare" THEN 2
    ELSE IF recovery = 2 /\ FaultFree /\ fn = "prepare" THEN 3
    ELSE IF recovery = 3 /\ FaultFree /\ fn = "enable" THEN 4
    ELSE 0

\* The owning pipeline invokes one of st7703_drm_funcs.
drm_panel_funcs ==
    /\ pc = "idle"
    /\ \E fn \in {"prepare", "enable", "disable", "unprepare"} :
          /\ fn = "prepare" => (vcc_use < MaxUse /\ iovcc_use < MaxUse)
          /\ Call(fn, "idle")
          /\ last' = fn
          /\ recovery' = RecoveryStep(fn)
    /\ pre' = Snapshot
    /\ log' = << >>
    /\ UNCHANGED <<config, threads, prepared, reset_gpio, dsi, rails, idx,
                   ret, val, enabled>>

\* A write of a number to the allpixelson debugfs file.
allpixelson_fops ==
    /\ pc = "idle"
    /\ vcc_use < MaxUse /\ iovcc_use < MaxUse
    /\ val' \in Durations
    /\ Call("allpixelson", "idle")
    /\ last' = "allpixelson"
    /\ recovery' = 0
    /\ pre' = Snapshot
    /\ log' = << >>
    /\ UNCHANGED <<config, threads, prepared, reset_gpio, dsi, rails, idx,
                   ret, enabled>>

\* ------------------------------------------------------------------------
\* st7703_prepare
\* ------------------------------------------------------------------------

\* st7703_prepare without its test of ctx->prepared.
st7703_prepare_unguarded ==
    /\ pc = "prepare"
    /\ pc' = "prepare_vcc"
    /\ UNCHANGED <<stack, ret>>
    /\ UNCHANGED <<config, threads, prepared, reset_gpio, dsi, rails, idx,
                   val, enabled, log, observers>>

\* if (ctx->prepared) return 0;
st7703_prepare ==
    /\ pc = "prepare"
    /\ IF prepared
       THEN Return(0)
       ELSE /\ pc' = "prepare_vcc"
            /\ UNCHANGED <<stack, ret>>
    /\ UNCHANGED <<config, threads, prepared, reset_gpio, dsi, rails, idx,
                   val, enabled, log, observers>>

\* st7703_prepare taking the disable_vcc exit when the vcc enable fails.
st7703_prepare_vcc_rollback ==
    /\ pc = "prepare_vcc"
    /\ IF ~prepared /\ vcc
       THEN \E r \in {0} \cup RailErrs :
               /\ log' = Append(log, Ev("vcc_enable", 1, r))
               /\ ret' = r
               /\ IF r < 0
                  THEN /\ pc' = "disable_vcc"
                       /\ UNCHANGED <<prepared, vcc_use, stack>>
                  ELSE /\ vcc_use' = vcc_use + 1
                       /\ prepared' = TRUE
                       /\ pc' = "prepare_iovcc"
                       /\ UNCHANGED stack
       ELSE /\ prepared' = TRUE
            /\ pc' = "prepare_iovcc"
            /\ UNCHANGED <<stack, ret, log, vcc_use>>
    /\ UNCHANGED <<config, threads, reset_gpio, dsi, iovcc_use, idx, val,
                   enabled, observers>>

\* regulator_enable(ctx->vcc) if the handle is valid; ctx->prepared = 1
st7703_prepare_vcc ==
    /\ pc = "prepare_vcc"
    /\ IF ~prepared /\ vcc
       THEN \E r \in {0} \cup RailErrs :
               /\ log' = Append(log, Ev("vcc_enable", 1, r))
               /\ IF r < 0
                  THEN /\ Return(r)
                       /\ UNCHANGED <<prepared, vcc_use>>
                  ELSE /\ vcc_use' = vcc_use + 1
                       /\ prepared' = TRUE
                       /\ pc' = "prepare_iovcc"
                       /\ ret' = r
                       /\ UNCHANGED stack
       ELSE /\ prepared' = TRUE
            /\ pc' = "prepare_iovcc"
            /\ UNCHANGED <<stack, ret, log, vcc_use>>
    /\ UNCHANGED <<config, threads, reset_gpio, dsi, iovcc_use, idx, val,
                   enabled, observers>>

\* regulator_enable(ctx->iovcc) if the handle is valid
st7703_prepare_iovcc ==
    /\ pc = "prepare_iovcc"
    /\ IF iovcc
       THEN \E r \in {0} \cup RailErrs :
               /\ log' = Append(log, Ev("iovcc_enable", 1, r))
               /\ ret' = r
               /\ IF r < 0
                  THEN /\ pc' = "disable_vcc"
                       /\ UNCHANGED iovcc_use
                  ELSE /\ pc' = "prepare_reset"
                       /\ iovcc_use' = iovcc_use + 1
       ELSE /\ pc' = "prepare_reset"
            /\ UNCHANGED <<ret, log, iovcc_use>>
    /\ UNCHANGED <<config, threads, prepared, reset_gpio, dsi, vcc_use,
                   stack, idx, val, enabled, observers>>

\* The reset pulse without the wait after the release.
st7703_prepare_reset_no_wait ==
    /\ pc = "prepare_reset"
    /\ log' = log \o <<Ev("reset", 1, 0), Ev("msleep", 20, 0),
                       Ev("reset", 0, 0)>>
    /\ reset_gpio' = 0
    /\ Return(0)
    /\ UNCHANGED <<config, threads, prepared, dsi, rails, idx, val, enabled,
                   observers>>

\* The reset pulse and the wait that follows it; return 0.
st7703_prepare_reset ==
    /\ pc = "prepare_reset"
    /\ log' = log \o <<Ev("reset", 1, 0), Ev("msleep", 20, 0),
                       Ev("reset", 0, 0), Ev("msleep", 120, 0)>>
    /\ reset_gpio' = 0
    /\ Return(0)
    /\ UNCHANGED <<config, threads, prepared, dsi, rails, idx, val, enabled,
                   observers>>

\* The error path without the regulator_disable of vcc.
st7703_prepare_no_rollback ==
    /\ pc = "disable_vcc"
    /\ prepared' = FALSE
    /\ Return(ret)
    /\ UNCHANGED <<config, threads, reset_gpio, dsi, rails, idx, val,
                   enabled, log, observers>>

\* disable_vcc: regulator_disable(ctx->vcc); ctx->prepared = 0; return ret;
\* The handle is not tested: on an invalid handle regulator_disable
\* dereferences an error pointer, and the call either oopses (the thread
\* never returns) or returns some value.
st7703_prepare_disable_vcc ==
    /\ pc = "disable_vcc"
    /\ \E r \in {0} \cup RailErrs, oops \in IF vcc THEN {FALSE} ELSE BOOLEAN :
          /\ log' = Append(log, Ev("vcc_disable", IF vcc THEN 1 ELSE 0, r))
          /\ vcc_use' = IF vcc /\ r = 0 THEN vcc_use - 1 ELSE vcc_use
          /\ IF oops
             THEN /\ pc' = "oops"
                  /\ UNCHANGED <<prepared, stack, ret>>
             ELSE /\ prepared' = FALSE
                  /\ Return(ret)
    /\ UNCHANGED <<config, threads, reset_gpio, dsi, iovcc_use, idx, val,
                   enabled, observers>>

\* ------------------------------------------------------------------------
\* st7703_unprepare
\* ------------------------------------------------------------------------

\* st7703_unprepare without its test of ctx->prepared.
st7703_unprepare_unguarded ==
    /\ pc = "unprepare"
    /\ reset_gpio' = 1
    /\ log' = Append(log, Ev("reset", 1, 0))
    /\ pc' = "unprepare_iovcc"
    /\ UNCHANGED <<stack, ret>>
    /\ UNCHANGED <<config, threads, prepared, dsi, rails, idx, val, enabled,
                   observers>>

\* if (!ctx->prepared) return 0; gpiod_set_value_cansleep(reset_gpio, 1);
st7703_unprepare ==
    /\ pc = "unprepare"
    /\ IF ~prepared
       THEN /\ Return(0)
            /\ UNCHANGED <<reset_gpio, log>>
       ELSE /\ reset_gpio' = 1
            /\ log' = Append(log, Ev("reset", 1, 0))
            /\ pc' = "unprepare_iovcc"
            /\ UNCHANGED <<stack, ret>>
    /\ UNCHANGED <<config, threads, prepared, dsi, rails, idx, val, enabled,
                   observers>>

\* st7703_unprepare returning the error of a rejected iovcc disable.
st7703_unprepare_iovcc_bail ==
    /\ pc = "unprepare_iovcc"
    /\ IF iovcc
       THEN \E r \in {0} \cup RailErrs :
               /\ r = 0 => iovcc_use > 0
               /\ log' = Append(log, Ev("iovcc_disable", 1, r))
               /\ iovcc_use' = IF r = 0 THEN iovcc_use - 1 ELSE iovcc_use
               /\ IF r < 0
                  THEN Return(r)
                  ELSE /\ pc' = "unprepare_vcc"
                       /\ UNCHANGED <<stack, ret>>
       ELSE /\ pc' = "unprepare_vcc"
            /\ UNCHANGED <<log, iovcc_use, stack, ret>>
    /\ UNCHANGED <<config, threads, prepared, reset_gpio, dsi, vcc_use, idx,
                   val, enabled, observers>>

\* regulator_disable(ctx->iovcc) if the handle is valid; its result is
\* not read.  A disable the regulator rejects leaves its use count.
st7703_unprepare_iovcc ==
    /\ pc = "unprepare_iovcc"
    /\ IF iovcc
       THEN \E r \in {0} \cup RailErrs :
               /\ r = 0 => iovcc_use > 0
               /\ log' = Append(log, Ev("iovcc_disable", 1, r))
               /\ iovcc_use' = IF r = 0 THEN iovcc_use - 1 ELSE iovcc_use
       ELSE UNCHANGED <<log, iovcc_use>>
    /\ pc' = "unprepare_vcc"
    /\ UNCHANGED <<config, threads, prepared, reset_gpio, dsi, vcc_use,
                   stack, idx, ret, val, enabled, observers>>

\* st7703_unprepare without its ctx->prepared = 0.
st7703_unprepare_vcc_stays_prepared ==
    /\ pc = "unprepare_vcc"
    /\ log' = Append(log, Ev("msleep", 40, 0))
    /\ enabled' = FALSE
    /\ Return(0)
    /\ UNCHANGED <<config, threads, prepared, reset_gpio, dsi, rails, idx,
                   val, observers>>

\* if (!ctx->prepared && IS_ERR_OR_NULL(ctx->vcc)) regulator_disable(vcc);
\* ctx->prepared = 0; msleep(40); return 0;
\* The guarded call would pass an invalid handle (see disable_vcc above).
st7703_unprepare_vcc ==
    /\ pc = "unprepare_vcc"
    /\ \E r \in {0} \cup RailErrs,
          oops \in IF ~prepared /\ ~vcc THEN BOOLEAN ELSE {FALSE} :
          /\ IF ~prepared /\ ~vcc
             THEN log' = log \o <<Ev("vcc_disable", 0, r)>>
                            \o (IF oops THEN << >>
                                ELSE <<Ev("msleep", 40, 0)>>)
             ELSE /\ r = 0
                  /\ log' = Append(log, Ev("msleep", 40, 0))
          /\ IF oops
             THEN /\ pc' = "oops"
                  /\ UNCHANGED <<prepared, enabled, stack, ret>>
             ELSE /\ prepared' = FALSE
                  /\ enabled' = FALSE
                  /\ Return(0)
    /\ UNCHANGED <<config, threads, reset_gpio, dsi, rails, idx, val,
                   observers>>

\* ------------------------------------------------------------------------
\* st7703_enable
\* ------------------------------------------------------------------------

\* st7703_enable assigning the low-power flag instead of adding it.
st7703_enable_replaces_flags ==
    /\ pc = "enable"
    /\ mode_flags' = {"MIPI_DSI_MODE_LPM"}
    /\ log' = Append(log, Ev("set_lpm", 0, 0))
    /\ idx' = 1
    /\ pc' = "init_sequence"
    /\ UNCHANGED <<config, threads, prepared, reset_gpio, lanes, format,
                   rails, stack, ret, val, enabled, observers>>

\* dsi->mode_flags |= MIPI_DSI_MODE_LPM; ret = ctx->desc->init_sequence(ctx)
st7703_enable ==
    /\ pc = "enable"
    /\ mode_flags' = mode_flags \cup {"MIPI_DSI_MODE_LPM"}
    /\ log' = Append(log, Ev("set_lpm", 0, 0))
    /\ idx' = 1
    /\ pc' = "init_sequence"
    /\ UNCHANGED <<config, threads, prepared, reset_gpio, lanes, format,
                   rails, stack, ret, val, enabled, observers>>

\* dsi_dcs_write_seq returning a failure before its msleep(20).
ItemLog_no_wait_on_failure(item, r) ==
    CASE item.kind = "generic" -> <<Ev("generic_write", item.cmd, r)>>
      [] item.kind = "dcs" ->
            IF r < 0 THEN <<Ev("dcs_write", item.cmd, r)>>
            ELSE <<Ev("dcs_write", item.cmd, r), Ev("msleep", item.ms, 0)>>
      [] item.kind = "msleep" -> <<Ev("msleep", item.ms, 0)>>

\* The operations one item of an init sequence makes, r being the result
\* of its transfer: dsi_generic_write_seq writes, dsi_dcs_write_seq writes
\* and sleeps 20 ms, msleep sleeps.
ItemLog(item, r) ==
    CASE item.kind = "generic" -> <<Ev("generic_write", item.cmd, r)>>
      [] item.kind = "dcs" -> <<Ev("dcs_write", item.cmd, r),
                                Ev("msleep", item.ms, 0)>>
      [] item.kind = "msleep" -> <<Ev("msleep", item.ms, 0)>>

\* The results a transfer of n bytes can report: the byte count or an error.
TransferResults(n) == {n} \cup BusErrs

\* The results the transfer of an init sequence item can report.
ItemResults(item) ==
    CASE item.kind = "generic" -> TransferResults(Len(item.data) + 1)
      [] item.kind = "dcs" -> TransferResults(Len(item.data))
      [] item.kind = "msleep" -> {0}

\* if (ret < 0) return ret;   (in both write macros)
WriteFailed(r) == r < 0

\* st7703_enable not testing the result of the init sequence: a failed
\* write ends the init sequence and st7703_enable goes on to exit-sleep.
init_sequence_unchecked ==
    /\ pc = "init_sequence"
    /\ IF idx > Len(desc.init_sequence)
       THEN /\ log' = Append(log, Ev("msleep", 20, 0))
            /\ pc' = "exit_sleep"
            /\ ret' = 0
            /\ UNCHANGED <<stack, idx>>
       ELSE LET item == desc.init_sequence[idx] IN
            \E r \in ItemResults(item) :
               IF WriteFailed(r)
               THEN /\ log' = log \o ItemLog(item, r)
                                  \o <<Ev("msleep", 20, 0)>>
                    /\ pc' = "exit_sleep"
                    /\ ret' = r
                    /\ UNCHANGED <<stack, idx>>
               ELSE /\ log' = log \o ItemLog(item, r)
                    /\ idx' = idx + 1
                    /\ UNCHANGED <<pc, stack, ret>>
    /\ UNCHANGED <<config, threads, prepared, reset_gpio, dsi, rails, val,
                   enabled, observers>>

\* One item of ctx->desc->init_sequence.  A failed write returns its error
\* from the init sequence, and st7703_enable returns it in turn.  After the
\* last item the init sequence returns 0 and st7703_enable sleeps 20 ms.
init_sequence ==
    /\ pc = "init_sequence"
    /\ IF idx > Len(desc.init_sequence)
       THEN /\ log' = Append(log, Ev("msleep", 20, 0))
            /\ pc' = "exit_sleep"
            /\ ret' = 0
            /\ UNCHANGED <<stack, idx>>
       ELSE LET item == desc.init_sequence[idx] IN
            \E r \in ItemResults(item) :
               /\ log' = log \o ItemLog(item, r)
               /\ IF WriteFailed(r)
                  THEN /\ Return(r)
                       /\ UNCHANGED idx
                  ELSE /\ idx' = idx + 1
                       /\ UNCHANGED <<pc, stack, ret>>
    /\ UNCHANGED <<config, threads, prepared, reset_gpio, dsi, rails, val,
                   enabled, observers>>

\* st7703_enable without the 120 ms wait after exit-sleep.
st7703_enable_exit_sleep_no_wait ==
    /\ pc = "exit_sleep"
    /\ \E r \in {0} \cup BusErrs :
          /\ log' = Append(log, Ev("exit_sleep", 0, r))
          /\ IF r < 0
             THEN Return(r)
             ELSE /\ ret' = r
                  /\ pc' = "readInfo_1"
                  /\ UNCHANGED stack
    /\ UNCHANGED <<config, threads, prepared, reset_gpio, dsi, rails, idx,
                   val, enabled, observers>>

\* ret = mipi_dsi_dcs_exit_sleep_mode(dsi); if (ret < 0) return ret;
\* msleep(120);
st7703_enable_exit_sleep ==
    /\ pc = "exit_sleep"
    /\ \E r \in {0} \cup BusErrs :
          IF r < 0
          THEN /\ log' = Append(log, Ev("exit_sleep", 0, r))
               /\ Return(r)
          ELSE /\ log' = log \o <<Ev("exit_sleep", 0, r),
                                  Ev("msleep", 120, 0)>>
               /\ ret' = r
               /\ pc' = "readInfo_1"
               /\ UNCHANGED stack
    /\ UNCHANGED <<config, threads, prepared, reset_gpio, dsi, rails, idx,
                   val, enabled, observers>>

\* readInfo(dsi): one DCS read of register 0xDA whose result is printed.
\* After the second readInfo st7703_enable returns 0.
readInfo ==
    /\ pc \in {"readInfo_1", "readInfo_2"}
    /\ \E r \in TransferResults(1) :
          log' = Append(log, Ev("dcs_read", READINFO_REG, r))
    /\ IF pc = "readInfo_1"
       THEN /\ pc' = "display_on"
            /\ UNCHANGED <<stack, ret, enabled>>
       ELSE /\ Return(0)
            /\ enabled' = TRUE
    /\ UNCHANGED <<config, threads, prepared, reset_gpio, dsi, rails, idx,
                   val, observers>>

\* ret = mipi_dsi_dcs_set_display_on(dsi);   (ret is not tested)
st7703_enable_display_on ==
    /\ pc = "display_on"
    /\ \E r \in {0} \cup BusErrs :
          /\ log' = Append(log, Ev("display_on", 0, r))
          /\ ret' = r
    /\ pc' = "readInfo_2"
    /\ UNCHANGED <<config, threads, prepared, reset_gpio, dsi, rails, stack,
                   idx, val, enabled, observers>>

\* ------------------------------------------------------------------------
\* st7703_disable
\* ------------------------------------------------------------------------

\* st7703_disable returning the error of a failed display-off.
st7703_disable_bail ==
    /\ pc = "disable"
    /\ \E r \in {0} \cup BusErrs :
          /\ log' = Append(log, Ev("display_off", 0, r))
          /\ IF r < 0
             THEN Return(r)
             ELSE /\ ret' = r
                  /\ pc' = "enter_sleep"
                  /\ UNCHANGED stack
    /\ UNCHANGED <<config, threads, prepared, reset_gpio, dsi, rails, idx,
                   val, enabled, observers>>

\* ret = mipi_dsi_dcs_set_display_off(dsi);   (a failure is only logged)
st7703_disable ==
    /\ pc = "disable"
    /\ \E r \in {0} \cup BusErrs :
          /\ log' = Append(log, Ev("display_off", 0, r))
          /\ ret' = r
    /\ pc' = "enter_sleep"
    /\ UNCHANGED <<config, threads, prepared, reset_gpio, dsi, rails, stack,
                   idx, val, enabled, observers>>

\* ret = mipi_dsi_dcs_enter_sleep_mode(dsi); return 0;
st7703_disable_enter_sleep ==
    /\ pc = "enter_sleep"
    /\ \E r \in {0} \cup BusErrs :
          log' = Append(log, Ev("enter_sleep", 0, r))
    /\ Return(0)
    /\ UNCHANGED <<config, threads, prepared, reset_gpio, dsi, rails, idx,
                   val, enabled, observers>>

\* ------------------------------------------------------------------------
\* allpixelson_set
\* ------------------------------------------------------------------------

\* msleep(val * 1000): the u64 product converted to msleep's unsigned int
\* argument, i.e. (v * 1000) % 2^32, computed on 16-bit halves.
MsleepArg(v) ==
    LET vh == v \div 65536
        vl == v % 65536
        p  == vl * 1000
        hi == (vh * 1000 + p \div 65536) % 65536
        lo == p % 65536
    IN  hi * 65536 + lo

\* allpixelson_set not reading the result of the all-pixels-on write.
allpixelson_set_unchecked ==
    /\ pc = "allpixelson"
    /\ \E r \in TransferResults(1) :
          log' = log \o <<Ev("generic_write", ST7703_CMD_ALL_PIXEL_ON, r),
                          Ev("msleep", MsleepArg(val), 0)>>
    /\ pc' = "apo_disable"
    /\ UNCHANGED <<stack, ret>>
    /\ UNCHANGED <<config, threads, prepared, reset_gpio, dsi, rails, idx,
                   val, enabled, observers>>

\* dsi_generic_write_seq(dsi, ST7703_CMD_ALL_PIXEL_ON); msleep(val * 1000);
allpixelson_set ==
    /\ pc = "allpixelson"
    /\ \E r \in TransferResults(1) :
          IF WriteFailed(r)
          THEN /\ log' = Append(log,
                           Ev("generic_write", ST7703_CMD_ALL_PIXEL_ON, r))
               /\ Return(r)
          ELSE /\ log' = log \o
                           <<Ev("generic_write", ST7703_CMD_ALL_PIXEL_ON, r),
                             Ev("msleep", MsleepArg(val), 0)>>
               /\ pc' = "apo_disable"
               /\ UNCHANGED <<stack, ret>>
    /\ UNCHANGED <<config, threads, prepared, reset_gpio, dsi, rails, idx,
                   val, enabled, observers>>

\* drm_panel_disable, drm_panel_unprepare, drm_panel_prepare and
\* drm_panel_enable, in this order; each invokes the panel's own function
\* and its result is not read.
allpixelson_reset ==
    /\ pc \in {"apo_disable", "apo_unprepare", "apo_prepare", "apo_enable"}
    /\ CASE pc = "apo_disable" ->
                /\ Call("disable", "apo_unprepare")
                /\ log' = Append(log, Ev("drm_panel_disable", 0, 0))
         [] pc = "apo_unprepare" ->
                /\ Call("unprepare", "apo_prepare")
                /\ log' = Append(log, Ev("drm_panel_unprepare", 0, 0))
         [] pc = "apo_prepare" ->
                /\ Call("prepare", "apo_enable")
                /\ log' = Append(log, Ev("drm_panel_prepare", 0, 0))
         [] pc = "apo_enable" ->
                /\ Call("enable", "apo_return")
                /\ log' = Append(log, Ev("drm_panel_enable", 0, 0))
    /\ UNCHANGED <<config, threads, prepared, reset_gpio, dsi, rails, idx,
                   ret, val, enabled, observers>>

\* return 0;
allpixelson_return ==
    /\ pc = "apo_return"
    /\ Return(0)
    /\ UNCHANGED <<config, threads, prepared, reset_gpio, dsi, rails, idx,
                   val, enabled, log, observers>>

\* ------------------------------------------------------------------------
\* st7703_shutdown and st7703_remove
\* ------------------------------------------------------------------------

\* The driver core invokes .shutdown or .remove of st7703_driver; no panel
\* operation is invoked afterwards.
st7703_driver ==
    /\ pc = "idle"
    /\ \E fn \in {"shutdown", "remove"} :
          /\ Call(fn, "halted")
          /\ last' = fn
    /\ recovery' = 0
    /\ pre' = Snapshot
    /\ log' = << >>
    /\ UNCHANGED <<config, threads, prepared, reset_gpio, dsi, rails, idx,
                   ret, val, enabled>>

\* st7703_shutdown without its drm_panel_unprepare.
st7703_shutdown_no_unprepare ==
    /\ pc = "shutdown"
    /\ Call("disable", "shutdown_return")
    /\ log' = Append(log, Ev("drm_panel_disable", 0, 0))
    /\ UNCHANGED <<config, threads, prepared, reset_gpio, dsi, rails, idx,
                   ret, val, enabled, observers>>

\* ret = drm_panel_unprepare(&ctx->panel);
st7703_shutdown ==
    /\ pc = "shutdown"
    /\ Call("unprepare", "shutdown_disable")
    /\ log' = Append(log, Ev("drm_panel_unprepare", 0, 0))
    /\ UNCHANGED <<config, threads, prepared, reset_gpio, dsi, rails, idx,
                   ret, val, enabled, observers>>

\* ret = drm_panel_disable(&ctx->panel);
st7703_shutdown_disable ==
    /\ pc = "shutdown_disable"
    /\ Call("disable", "shutdown_return")
    /\ log' = Append(log, Ev("drm_panel_disable", 0, 0))
    /\ UNCHANGED <<config, threads, prepared, reset_gpio, dsi, rails, idx,
                   ret, val, enabled, observers>>

\* st7703_shutdown returns (void).
st7703_shutdown_return ==
    /\ pc = "shutdown_return"
    /\ Return(0)
    /\ UNCHANGED <<config, threads, prepared, reset_gpio, dsi, rails, idx,
                   val, enabled, log, observers>>

\* st7703_shutdown(dsi);
st7703_remove ==
    /\ pc = "remove"
    /\ Call("shutdown", "remove_detach")
    /\ UNCHANGED <<config, threads, prepared, reset_gpio, dsi, rails, idx,
                   ret, val, enabled, log, observers>>

\* ret = mipi_dsi_detach(dsi); drm_panel_remove(&ctx->panel);
\* st7703_debugfs_remove(ctx);
st7703_remove_detach ==
    /\ pc = "remove_detach"
    /\ \E r \in {0} \cup BusErrs :
          log' = log \o <<Ev("mipi_dsi_detach", 0, r),
                          Ev("drm_panel_remove", 0, 0),
                          Ev("debugfs_remove", 0, 0)>>
    /\ Return(0)
    /\ UNCHANGED <<config, threads, prepared, reset_gpio, dsi, rails, idx,
                   val, enabled, observers>>

\* ------------------------------------------------------------------------
\* Specification
\* ------------------------------------------------------------------------

Next ==
    \/ drm_panel_funcs
    \/ allpixelson_fops
    \/ st7703_prepare
    \/ st7703_prepare_vcc
    \/ st7703_prepare_iovcc
    \/ st7703_prepare_reset
    \/ st7703_prepare_disable_vcc
    \/ st7703_unprepare
    \/ st7703_unprepare_iovcc
    \/ st7703_unprepare_vcc
    \/ st7703_enable
    \/ init_sequence
    \/ st7703_enable_exit_sleep
    \/ readInfo
    \/ st7703_enable_display_on
    \/ st7703_disable
    \/ st7703_disable_enter_sleep
    \/ allpixelson_set
    \/ allpixelson_reset
    \/ allpixelson_return
    \/ st7703_driver
    \/ st7703_shutdown
    \/ st7703_shutdown_disable
    \/ st7703_shutdown_return
    \/ st7703_remove
    \/ st7703_remove_detach

Spec == Init /\ [][Next]_vars

\* ------------------------------------------------------------------------
\* Two threads: the pipeline's and a writer of the debugfs file
\* ------------------------------------------------------------------------

\* Context switches explored.
MaxSwitch == 2

\* The thread at position p is inside a panel operation.
Running(p) == p \notin {"idle", "returned", "halted"}

\* A thread of the owning pipeline invokes one of st7703_drm_funcs, once.
pipeline_thread ==
    /\ other.thread = "debugfs"
    /\ pc = "idle"
    /\ \E fn \in {"prepare", "enable", "disable", "unprepare"} :
          /\ fn = "prepare" => (vcc_use < MaxUse /\ iovcc_use < MaxUse)
          /\ Call(fn, "returned")
          /\ last' = fn
    /\ recovery' = 0
    /\ pre' = Snapshot
    /\ log' = << >>
    /\ UNCHANGED <<config, threads, prepared, reset_gpio, dsi, rails, idx,
                   ret, val, enabled>>

\* A thread writes a number to the allpixelson debugfs file, once.
debugfs_thread ==
    /\ other.thread = "pipeline"
    /\ pc = "idle"
    /\ vcc_use < MaxUse /\ iovcc_use < MaxUse
    /\ val' \in Durations
    /\ Call("allpixelson", "returned")
    /\ last' = "allpixelson"
    /\ recovery' = 0
    /\ pre' = Snapshot
    /\ log' = << >>
    /\ UNCHANGED <<config, threads, prepared, reset_gpio, dsi, rails, idx,
                   ret, enabled>>

\* The scheduler suspends the running thread and resumes the other one.
\* Neither allpixelson_set nor a function of st7703_drm_funcs takes a lock,
\* so this can happen between any two steps.  The log restarts: it holds
\* the operations made since the running thread was scheduled.
context_switch ==
    /\ switches < MaxSwitch
    /\ other' = [thread |-> IF other.thread = "debugfs" THEN "pipeline"
                             ELSE "debugfs",
                 pc |-> pc, stack |-> stack, idx |-> idx, ret |-> ret,
                 val |-> val]
    /\ log' = << >>
    /\ pc' = other.pc
    /\ stack' = other.stack
    /\ idx' = other.idx
    /\ ret' = other.ret
    /\ val' = other.val
    /\ switches' = switches + 1
    /\ UNCHANGED <<config, prepared, reset_gpio, dsi, rails, enabled,
                   observers>>

NextConcurrent ==
    \/ pipeline_thread
    \/ debugfs_thread
    \/ context_switch
    \/ st7703_prepare
    \/ st7703_prepare_vcc
    \/ st7703_prepare_iovcc
    \/ st7703_prepare_reset
    \/ st7703_prepare_disable_vcc
    \/ st7703_unprepare
    \/ st7703_unprepare_iovcc
    \/ st7703_unprepare_vcc
    \/ st7703_enable
    \/ init_sequence
    \/ st7703_enable_exit_sleep
    \/ readInfo
    \/ st7703_enable_display_on
    \/ st7703_disable
    \/ st7703_disable_enter_sleep
    \/ allpixelson_set
    \/ allpixelson_reset
    \/ allpixelson_return

\* The two threads are explored on the variant whose init sequence is
\* empty, with both rails present.
InitConcurrent ==
    /\ Init
    /\ compatible = "xingbangda,xbd599"
    /\ vcc /\ iovcc

SpecConcurrent == InitConcurrent /\ [][NextConcurrent]_vars

\* ------------------------------------------------------------------------
\* Vocabulary of the properties
\* ------------------------------------------------------------------------

\* The caller's call of op has returned.
Done(op) == pc \in {"idle", "halted"} /\ last = op

WriteOps == {"generic_write", "dcs_write"}
BusOps == WriteOps \cup {"exit_sleep", "display_on", "display_off",
                         "enter_sleep", "dcs_read"}
RailEnableOps == {"vcc_enable", "iovcc_enable"}
RailOps == RailEnableOps \cup {"vcc_disable", "iovcc_disable"}

\* The positions of the log whose operation is in ops.
Positions(ops) == {i \in DOMAIN log : log[i].op \in ops}

\* The bus transactions of the log, in order.
BusLog == SelectSeq(log, LAMBDA e : e.op \in BusOps)

\* The commands of the variant's init sequence, in order.
InitCommands == SelectSeq(desc.init_sequence, LAMBDA it : it.kind # "msleep")

\* Level of the reset line just before the operation at position i.
ResetBefore(i) ==
    LET S == {j \in 1..(i - 1) : log[j].op = "reset"}
    IN  IF S = {} THEN pre.reset_gpio
        ELSE log[CHOOSE j \in S : \A k \in S : k <= j].arg


TypeOK ==
    /\ prepared \in BOOLEAN
    /\ reset_gpio \in {0, 1}
    /\ vcc_use \in 0..MaxUse
    /\ iovcc_use \in 0..MaxUse
    /\ Len(stack) <= 3
    /\ pc \in {"idle", "halted"} <=> stack = << >>

\* ------------------------------------------------------------------------
\* C1
\* ------------------------------------------------------------------------

LegalTransition(s, t) ==
    \/ s = t
    \/ s = "Unprepared" /\ t = "Prepared"
    \/ s = "Prepared" /\ t = "Enabled"
    \/ t = "Unprepared"

\* C1: the lifecycle state changes only by Unprepared -> Prepared,
\* Prepared -> Enabled and back to Unprepared; in particular no step makes
\* an Unprepared panel Enabled.  (Stated for the calls none of whose
\* operations failed, which is enough to refute it.)
C1_LifecycleOrder ==
    [][FaultFree' => LegalTransition(PanelState, PanelState')]_vars

\* ------------------------------------------------------------------------
\* C2
\* ------------------------------------------------------------------------

\* C2: unprepare() on a prepared panel with both rails asserts reset,
\* disables iovcc, then disables vcc, then waits 40 ms, and a rail whose
\* disable was accepted is one use lower than before the call.
C2_UnprepareOrder ==
    (Done("unprepare") /\ pre.prepared /\ vcc /\ iovcc) =>
        /\ Len(log) = 4
        /\ log[1] = Ev("reset", 1, 0)
        /\ log[2].op = "iovcc_disable"
        /\ log[3].op = "vcc_disable"
        /\ log[4] = Ev("msleep", 40, 0)
        /\ log[2].res = 0 => iovcc_use = pre.iovcc_use - 1
        /\ log[3].res = 0 => vcc_use = pre.vcc_use - 1

\* ------------------------------------------------------------------------
\* C3
\* ------------------------------------------------------------------------

\* prepare() has returned after vcc was enabled and the enable of iovcc
\* at position i failed.
IovccFailedAt(i) ==
    /\ Done("prepare")
    /\ i \in DOMAIN log
    /\ log[i].op = "iovcc_enable"
    /\ log[i].res < 0
    /\ \E j \in 1..(i - 1) : log[j].op = "vcc_enable" /\ log[j].res = 0

\* C3: when the iovcc enable fails in prepare() after vcc was enabled, vcc
\* has been disabled again before prepare returns (an accepted disable
\* restores its use count), the reset line was not touched, the panel is
\* not prepared and prepare returns the error of the iovcc enable.
C3_IovccFailureRollsBack ==
    \A i \in DOMAIN log :
        IovccFailedAt(i) =>
            /\ \E k \in (i + 1)..Len(log) :
                  /\ log[k].op = "vcc_disable"
                  /\ log[k].arg = 1
                  /\ log[k].res = 0 => vcc_use = pre.vcc_use
            /\ Positions({"reset"}) = {}
            /\ reset_gpio = pre.reset_gpio
            /\ ~prepared
            /\ PanelState = pre.state
            /\ ret = log[i].res

C3_Witness ==
    \E i \in DOMAIN log :
        /\ IovccFailedAt(i)
        /\ pre.state = "Unprepared"
        /\ vcc_use = 0

\* ------------------------------------------------------------------------
\* C4
\* ------------------------------------------------------------------------

\* The commands enable() issues: init commands, exit-sleep, display-on.
EnableSteps == WriteOps \cup {"exit_sleep", "display_on"}

\* C4: when a step of enable() fails, enable() returns that step's error
\* and the panel does not become Enabled; enable() returns 0 only when
\* every step, display-on included, succeeded.  (Stated for enable() on a
\* Prepared panel.)
C4_EnableReportsEveryFailure ==
    (Done("enable") /\ pre.state = "Prepared") =>
        \A i \in Positions(EnableSteps) :
            log[i].res < 0 =>
                /\ ret = log[i].res
                /\ enabled = pre.enabled

\* ------------------------------------------------------------------------
\* C5
\* ------------------------------------------------------------------------

\* enable() has returned and the write at position i of the log failed.
InitWriteFailedAt(i) ==
    /\ Done("enable")
    /\ i \in Positions(WriteOps)
    /\ log[i].res < 0

\* C5: when the k-th write of the init sequence fails during enable(), the
\* writes made are exactly the first k commands of the sequence (none
\* repeated, none after the failed one), no other bus transaction was
\* made, the lifecycle state is what it was and enable() returns the error
\* of the failed write.
C5_InitFailureAborts ==
    \A i \in DOMAIN log :
        InitWriteFailedAt(i) =>
            /\ Len(BusLog) <= Len(InitCommands)
            /\ \A n \in DOMAIN BusLog :
                  /\ BusLog[n].op = InitCommands[n].kind \o "_write"
                  /\ BusLog[n].arg = InitCommands[n].cmd
                  /\ BusLog[n].res < 0 <=> n = Len(BusLog)
            /\ \A j \in (i + 1)..Len(log) : log[j].op \notin BusOps
            /\ prepared = pre.prepared
            /\ PanelState = pre.state
            /\ ret = log[i].res

\* The third write of the 22-command sequence fails on a Prepared panel.
C5_Witness ==
    \E i \in DOMAIN log :
        /\ InitWriteFailedAt(i)
        /\ Len(BusLog) = 3
        /\ compatible = "dlc,dlc350v11"
        /\ pre.state = "Prepared"
        /\ PanelState = "Prepared"

\* ------------------------------------------------------------------------
\* C6
\* ------------------------------------------------------------------------

\* C6: prepare() on a prepared panel returns 0 and makes no rail, reset
\* or other operation.
C6_PrepareIdempotent ==
    (Done("prepare") /\ pre.prepared) =>
        /\ ret = 0
        /\ log = << >>
        /\ prepared
        /\ reset_gpio = pre.reset_gpio
        /\ vcc_use = pre.vcc_use
        /\ iovcc_use = pre.iovcc_use

\* The second of two prepare() calls has returned: the panel was powered
\* up by the first.
C6_Witness ==
    /\ Done("prepare")
    /\ pre.prepared
    /\ pre.reset_gpio = 0
    /\ vcc /\ iovcc
    /\ vcc_use = 1 /\ iovcc_use = 1

\* ------------------------------------------------------------------------
\* C7
\* ------------------------------------------------------------------------

\* C7: unprepare() on a prepared panel leaves it Unprepared when it
\* returns, whatever the rail disables reported.
C7_UnprepareUnconditional ==
    (Done("unprepare") /\ pre.prepared) =>
        /\ ~prepared
        /\ PanelState = "Unprepared"

\* unprepare() has returned and a rail disable it made was rejected.
C7_Witness ==
    /\ Done("unprepare")
    /\ pre.prepared
    /\ \E i \in Positions({"vcc_disable", "iovcc_disable"}) : log[i].res < 0

\* ------------------------------------------------------------------------
\* C8
\* ------------------------------------------------------------------------

\* The order of a call of enable(): the low-power flag is set first, the
\* bus transactions are the commands of the init sequence in declared
\* order followed by the operations of tail, exit-sleep is preceded by a
\* 20 ms wait and followed by a 120 ms wait.
EnableOrder(tail) ==
    LET n == Len(InitCommands) IN
    /\ log # << >>
    /\ log[1] = Ev("set_lpm", 0, 0)
    /\ "MIPI_DSI_MODE_LPM" \in mode_flags
    /\ Len(BusLog) = n + Len(tail)
    /\ \A k \in 1..n :
          /\ BusLog[k].op = InitCommands[k].kind \o "_write"
          /\ BusLog[k].arg = InitCommands[k].cmd
    /\ \A k \in DOMAIN tail : BusLog[n + k].op = tail[k]
    /\ \A i \in Positions({"exit_sleep"}) :
          /\ i > 1 /\ log[i - 1] = Ev("msleep", 20, 0)
          /\ i < Len(log) /\ log[i + 1] = Ev("msleep", 120, 0)
    /\ \A i \in Positions({"dcs_read"}) : log[i].arg = READINFO_REG

\* C8 as claimed: a fault-free enable() sets the low-power flag, sends the
\* init commands in declared order, waits, issues exit-sleep, waits 120 ms
\* and issues display-on, which is its last bus transaction.  (Stated for
\* enable() on a Prepared panel.)
C8_DisplayOnLast ==
    (Done("enable") /\ FaultFree /\ pre.state = "Prepared") =>
        EnableOrder(<<"exit_sleep", "display_on">>)

\* C8 amended: a fault-free enable() sets the low-power flag, sends the
\* init commands in declared order, waits, issues exit-sleep, waits 120 ms,
\* reads register 0xDA, issues display-on and reads register 0xDA again;
\* display-on is its last command, the second read its last transaction.
C8_EnableOrder ==
    (Done("enable") /\ FaultFree) =>
        EnableOrder(<<"exit_sleep", "dcs_read", "display_on", "dcs_read">>)

\* A fault-free enable() of the 22-command variant on a Prepared panel.
C8_Witness ==
    /\ Done("enable")
    /\ FaultFree
    /\ compatible = "dlc,dlc350v11"
    /\ pre.state = "Prepared"
    /\ PanelState = "Enabled"

\* ------------------------------------------------------------------------
\* C9
\* ------------------------------------------------------------------------

\* C9: in every prepare() that powers the panel up, the reset line is at
\* its asserted level when the primary and when the secondary rail are
\* enabled.
C9_ResetAssertedWhilePoweringUp ==
    (Done("prepare") /\ ~pre.prepared /\ ret = 0) =>
        \A i \in Positions(RailEnableOps) : ResetBefore(i) = 1

\* ------------------------------------------------------------------------
\* C10
\* ------------------------------------------------------------------------

\* C10: a successful prepare() ends with the release of the reset line
\* followed by a 120 ms wait; every present rail was enabled before the
\* release and no rail or reset operation follows it.  In every call, a
\* release of the reset line is directly followed by the 120 ms wait, so
\* no bus command falls between them.
C10_ResetReleasedLast ==
    /\ (Done("prepare") /\ ret = 0 /\ ~pre.prepared) =>
          LET n == Len(log) IN
          /\ n >= 2
          /\ log[n - 1] = Ev("reset", 0, 0)
          /\ log[n] = Ev("msleep", 120, 0)
          /\ reset_gpio = 0
          /\ prepared
          /\ vcc => \E i \in 1..(n - 2) : log[i] = Ev("vcc_enable", 1, 0)
          /\ iovcc => \E i \in 1..(n - 2) : log[i] = Ev("iovcc_enable", 1, 0)
          /\ \A i \in Positions(RailOps \cup {"reset"}) : i <= n - 1
    /\ \A i \in Positions({"reset"}) :
          log[i].arg = 0 =>
              /\ i < Len(log)
              /\ log[i + 1] = Ev("msleep", 120, 0)

\* A prepare() that powered up a panel with both rails has returned 0.
C10_Witness ==
    /\ Done("prepare")
    /\ ret = 0
    /\ ~pre.prepared
    /\ vcc /\ iovcc
    /\ Len(log) = 6

\* ------------------------------------------------------------------------
\* C11
\* ------------------------------------------------------------------------

\* C11: disable() issues display-off and then sleep-enter, whatever
\* display-off reported, returns 0 whatever either reported, and leaves
\* the prepared flag, the lifecycle state, the reset line, the rails and
\* the bus mode flags as they were.
C11_DisableBestEffort ==
    Done("disable") =>
        /\ Len(log) = 2
        /\ log[1].op = "display_off"
        /\ log[2].op = "enter_sleep"
        /\ ret = 0
        /\ prepared = pre.prepared
        /\ PanelState = pre.state
        /\ reset_gpio = pre.reset_gpio
        /\ vcc_use = pre.vcc_use
        /\ iovcc_use = pre.iovcc_use
        /\ mode_flags = pre.mode_flags

\* disable() on an Enabled panel has returned; display-off had failed and
\* sleep-enter failed as well.
C11_Witness ==
    /\ Done("disable")
    /\ pre.state = "Enabled"
    /\ pre.prepared
    /\ Len(log) = 2
    /\ log[1].res < 0
    /\ log[2].res < 0

\* ------------------------------------------------------------------------
\* C12
\* ------------------------------------------------------------------------

\* C12: enable() on a panel that is already Enabled returns 0 and makes no
\* bus transaction.
C12_EnableIdempotent ==
    (Done("enable") /\ pre.state = "Enabled" /\ pre.prepared) =>
        /\ ret = 0
        /\ BusLog = << >>

\* ------------------------------------------------------------------------
\* C13
\* ------------------------------------------------------------------------

\* The panel operations allpixelson_set has invoked, in order.
PanelCalls ==
    SelectSeq(log, LAMBDA e : e.op \in {"drm_panel_disable",
                  "drm_panel_unprepare", "drm_panel_prepare",
                  "drm_panel_enable"})

\* The operations of the call that belong to the panel operation invoked
\* at position c of the log: those up to the next invocation.
Segment(c) ==
    LET later == {j \in Positions({"drm_panel_disable", "drm_panel_unprepare",
                      "drm_panel_prepare", "drm_panel_enable"}) : j > c}
        stop  == IF later = {} THEN Len(log) + 1
                 ELSE CHOOSE j \in later : \A k \in later : j <= k
    IN  SubSeq(log, c + 1, stop - 1)

\* The order of a fault-free all_pixels_on on an Enabled panel: the
\* all-pixels-on command once, one wait, then disable, unprepare, prepare
\* and enable, each doing its work, and the panel Enabled at the end.
AllPixelsOnCycle ==
    /\ Len(log) >= 2
    /\ log[1].op = "generic_write"
    /\ log[1].arg = ST7703_CMD_ALL_PIXEL_ON
    /\ \A i \in Positions(WriteOps) :
          log[i].arg = ST7703_CMD_ALL_PIXEL_ON => i = 1
    /\ log[2].op = "msleep"
    /\ Len(PanelCalls) = 4
    /\ PanelCalls[1].op = "drm_panel_disable"
    /\ PanelCalls[2].op = "drm_panel_unprepare"
    /\ PanelCalls[3].op = "drm_panel_prepare"
    /\ PanelCalls[4].op = "drm_panel_enable"
    /\ log[3].op = "drm_panel_disable"
    /\ \A c \in DOMAIN log :
          /\ log[c].op = "drm_panel_disable" =>
                \E i \in 1..Len(Segment(c)) :
                    Segment(c)[i].op = "display_off"
          /\ log[c].op = "drm_panel_unprepare" =>
                \E i \in 1..Len(Segment(c)) :
                    Segment(c)[i] = Ev("reset", 1, 0)
          /\ log[c].op = "drm_panel_prepare" =>
                \E i \in 1..Len(Segment(c)) :
                    Segment(c)[i] = Ev("reset", 0, 0)
          /\ log[c].op = "drm_panel_enable" =>
                \E i \in 1..Len(Segment(c)) :
                    Segment(c)[i].op = "display_on"
    /\ ret = 0
    /\ prepared
    /\ PanelState = "Enabled"

\* C13: from Enabled and with no faults, all_pixels_on(d) issues the
\* all-pixels-on command once, waits d seconds, then performs disable,
\* unprepare, prepare and enable in this order, and the panel ends Enabled.
C13_AllPixelsOnCycle ==
    (Done("allpixelson") /\ pre.state = "Enabled" /\ pre.prepared
        /\ FaultFree) =>
        /\ AllPixelsOnCycle
        /\ log[2].arg % 1000 = 0
        /\ log[2].arg \div 1000 = val

\* What holds of every d: the same cycle, with a wait of
\* (d * 1000) % 2^32 milliseconds, which is d seconds for the d in range.
C13_CycleUpToTruncation ==
    (Done("allpixelson") /\ pre.state = "Enabled" /\ pre.prepared
        /\ FaultFree) =>
        /\ AllPixelsOnCycle
        /\ val = 2 => log[2].arg = 2000
        /\ val = 4294968 => log[2].arg = 704

\* ------------------------------------------------------------------------
\* C14
\* ------------------------------------------------------------------------

\* C14: whatever the rail handles and the failures, no regulator enable
\* or disable is ever called on an absent (invalid) rail handle.
C14_NoCallOnAbsentRail ==
    \A i \in Positions(RailOps) : log[i].arg = 1

\* ------------------------------------------------------------------------
\* C15
\* ------------------------------------------------------------------------

\* The step issues a bus transaction.
IssuesBusOp ==
    /\ Len(log') > Len(log)
    /\ \E i \in (Len(log) + 1)..Len(log') : log'[i].op \in BusOps

\* C15: no bus transaction is issued while the panel is Unprepared; in
\* particular teardown sends display-off and sleep-enter before it powers
\* the panel down.  (Stated for the teardown of a prepared panel.)
C15_NoBusWhileUnprepared ==
    [][(last' \in {"shutdown", "remove"} /\ pre'.prepared /\ IssuesBusOp)
          => prepared]_vars

\* ------------------------------------------------------------------------
\* C17
\* ------------------------------------------------------------------------

\* C17: when shutdown or remove has finished, the panel is not prepared;
\* a panel that was prepared has been unprepared, with the reset line
\* asserted.
C17_TeardownUnprepares ==
    (Done("shutdown") \/ Done("remove")) =>
        /\ ~prepared
        /\ pre.prepared =>
              /\ PanelState = "Unprepared"
              /\ reset_gpio = 1
              /\ \E i \in Positions({"reset"}) : log[i].arg = 1

\* remove has finished on a panel that was Enabled.
C17_Witness ==
    /\ Done("remove")
    /\ pre.prepared
    /\ pre.state = "Enabled"
    /\ pre.reset_gpio = 0

\* ------------------------------------------------------------------------
\* C18
\* ------------------------------------------------------------------------

\* prepare() has returned and its enable of vcc, event i, failed.
VccFailedAt(i) ==
    /\ Done("prepare")
    /\ i \in DOMAIN log
    /\ log[i].op = "vcc_enable"
    /\ log[i].res < 0

\* C18: when the vcc enable fails in prepare(), prepare returns that
\* error, the panel stays unprepared in the state it had, iovcc is not
\* enabled, the reset line is not driven and no rail is disabled: the
\* failed enable is the only thing prepare() did.
C18_VccFailureAborts ==
    \A i \in DOMAIN log :
        VccFailedAt(i) =>
            /\ ret = log[i].res
            /\ ~prepared
            /\ PanelState = pre.state
            /\ Positions({"iovcc_enable", "reset"}) = {}
            /\ Positions({"vcc_disable", "iovcc_disable"}) = {}
            /\ log = <<log[i]>>
            /\ reset_gpio = pre.reset_gpio
            /\ vcc_use = pre.vcc_use
            /\ iovcc_use = pre.iovcc_use

\* The vcc enable failed on an Unprepared panel that has an iovcc rail.
C18_Witness ==
    /\ VccFailedAt(1)
    /\ pre.state = "Unprepared"
    /\ iovcc

\* ------------------------------------------------------------------------
\* C19
\* ------------------------------------------------------------------------

\* C19: unprepare() on a panel that is not prepared returns 0 and does
\* nothing: the reset line is not driven, no rail is disabled and the
\* state is unchanged.
C19_UnprepareIdempotent ==
    (Done("unprepare") /\ ~pre.prepared) =>
        /\ ret = 0
        /\ log = << >>
        /\ ~prepared
        /\ PanelState = pre.state
        /\ reset_gpio = pre.reset_gpio
        /\ vcc_use = pre.vcc_use
        /\ iovcc_use = pre.iovcc_use

\* unprepare() has returned on an Unprepared panel whose reset line an
\* earlier unprepare() had asserted.
C19_Witness ==
    /\ Done("unprepare")
    /\ pre.state = "Unprepared"
    /\ pre.reset_gpio = 1
    /\ iovcc

\* ------------------------------------------------------------------------
\* C20
\* ------------------------------------------------------------------------

\* Each present rail is enabled once while prepared is set and not at all
\* while it is clear.
Balanced(p, v, io) ==
    /\ vcc => v = (IF p THEN 1 ELSE 0)
    /\ iovcc => io = (IF p THEN 1 ELSE 0)

\* C20: for each present rail, enables minus disables is 1 while the panel
\* is prepared and 0 while it is not.  (Stated per call: a call of
\* prepare, unprepare or all_pixels_on in which nothing failed, made with
\* the rails in balance, returns with the rails in balance.)
C20_RailsBalanced ==
    ( /\ Done("prepare") \/ Done("unprepare") \/ Done("allpixelson")
      /\ FaultFree
      /\ Balanced(pre.prepared, pre.vcc_use, pre.iovcc_use) )
        => Balanced(prepared, vcc_use, iovcc_use)

\* ------------------------------------------------------------------------
\* C16
\* ------------------------------------------------------------------------

\* The call asserted the reset line and released it afterwards.
ResetPulsed ==
    /\ \E i, j \in Positions({"reset"}) :
          i < j /\ log[i].arg = 1 /\ log[j].arg = 0
    /\ reset_gpio = 0

\* C16: after an enable() in which a step failed, the calls disable,
\* unprepare, prepare, enable, with no further fault, all return 0:
\* unprepare leaves the panel unprepared, prepare asserts and releases the
\* reset line, enable sends the whole init sequence from its first command
\* and the panel ends Enabled.
C16_RecoveryAfterFailedEnable ==
    (pc = "idle" /\ recovery > 0 /\ FaultFree) =>
        /\ ret = 0
        /\ recovery = 2 => ~prepared
        /\ recovery = 3 => prepared /\ ResetPulsed
        /\ recovery = 4 =>
              /\ pre.prepared /\ prepared
              /\ EnableOrder(<<"exit_sleep", "dcs_read", "display_on",
                               "dcs_read">>)
              /\ PanelState = "Enabled"

\* The recovery has completed on the 22-command variant after an enable()
\* that had failed on a Prepared panel.
C16_Witness ==
    /\ Done("enable")
    /\ recovery = 4
    /\ FaultFree
    /\ compatible = "dlc,dlc350v11"
    /\ vcc /\ iovcc
    /\ vcc_use = 2
    /\ PanelState = "Enabled"

\* ------------------------------------------------------------------------
\* C21
\* ------------------------------------------------------------------------

\* C21: all_pixels_on invoked on a panel that is not Enabled transmits no
\* bus command, runs none of disable, unprepare, prepare, enable and
\* leaves an Unprepared panel Unprepared, its rails as they were.
C21_AllPixelsOnOnlyFromEnabled ==
    (last = "allpixelson" /\ pre.state # "Enabled") =>
        /\ Positions(BusOps) = {}
        /\ PanelCalls = << >>
        /\ pre.state = "Unprepared" =>
              /\ ~prepared
              /\ PanelState = "Unprepared"
              /\ vcc_use = pre.vcc_use
              /\ iovcc_use = pre.iovcc_use

\* ------------------------------------------------------------------------
\* C22
\* ------------------------------------------------------------------------

\* The positions of the log inside the panel operation call.
Within(call) ==
    {i \in DOMAIN log :
        \E c \in Positions({call}) :
            i > c /\ i <= c + Len(Segment(c))}

\* C22: all_pixels_on returns 0 only if its cycle left the panel Enabled:
\* when a step of its prepare or of its enable fails it returns an error,
\* and it does not invoke enable after a prepare that failed.  (Stated for
\* all_pixels_on on an Enabled panel.)
C22_AllPixelsOnReportsFailure ==
    (Done("allpixelson") /\ pre.state = "Enabled" /\ pre.prepared) =>
        /\ ret = 0 => prepared /\ PanelState = "Enabled"
        /\ (\E i \in Within("drm_panel_prepare") \cup
                     Within("drm_panel_enable") : log[i].res < 0)
              => ret < 0
        /\ (\E i \in Within("drm_panel_prepare") : log[i].res < 0)
              => Positions({"drm_panel_enable"}) = {}

\* ------------------------------------------------------------------------
\* C23
\* ------------------------------------------------------------------------

\* C23: when the all-pixels-on write fails, all_pixels_on returns its
\* error at once: the failed write is the only thing it did (no wait, no
\* panel operation), and the state, the reset line and the rails are as
\* they were.
C23_AllPixelsOnWriteFailure ==
    (Done("allpixelson") /\ log # << >> /\ log[1].res < 0) =>
        /\ ret = log[1].res
        /\ log = <<Ev("generic_write", ST7703_CMD_ALL_PIXEL_ON, ret)>>
        /\ prepared = pre.prepared
        /\ PanelState = pre.state
        /\ reset_gpio = pre.reset_gpio
        /\ vcc_use = pre.vcc_use
        /\ iovcc_use = pre.iovcc_use

\* The all-pixels-on write has failed on an Enabled panel.
C23_Witness ==
    /\ Done("allpixelson")
    /\ log # << >>
    /\ log[1].res < 0
    /\ pre.state = "Enabled"
    /\ pre.prepared

\* ------------------------------------------------------------------------
\* C25
\* ------------------------------------------------------------------------

\* C25: every DCS write of an init sequence is followed at once by a 20 ms
\* wait, whether it succeeded or failed: after a failed write the wait is
\* the last thing enable() does before it returns the error, after a
\* successful one it precedes the next command.
C25_DcsWriteSettles ==
    \A i \in Positions({"dcs_write"}) :
        /\ i < Len(log)
        /\ log[i + 1] = Ev("msleep", 20, 0)
        /\ (Done("enable") /\ log[i].res < 0) =>
              /\ Len(log) = i + 1
              /\ ret = log[i].res

\* enable() has returned the error of a DCS write that failed after an
\* earlier one had succeeded.
C25_Witness ==
    /\ Done("enable")
    /\ ret < 0
    /\ \E i, j \in Positions({"dcs_write"}) :
          /\ j < i
          /\ log[j].res >= 0
          /\ log[i].res < 0
          /\ log[i + 1] = Ev("msleep", 20, 0)

\* ------------------------------------------------------------------------
\* C26
\* ------------------------------------------------------------------------

\* C26: for every variant, the first command enable() transmits is the
\* unlock command SETEXTC with payload F1 12 83, and every later command
\* is transmitted after it succeeded.  (Stated for enable() on a Prepared
\* panel.)
C26_UnlockFirst ==
    (Done("enable") /\ pre.state = "Prepared") =>
        /\ InitCommands # << >>
        /\ InitCommands[1].cmd = ST7703_CMD_SETEXTC
        /\ InitCommands[1].data = <<\hF1, \h12, \h83>>
        /\ BusLog # << >>
        /\ BusLog[1].op \in WriteOps
        /\ BusLog[1].arg = ST7703_CMD_SETEXTC
        /\ Len(BusLog) > 1 => BusLog[1].res >= 0

\* ------------------------------------------------------------------------
\* C27
\* ------------------------------------------------------------------------

\* C27: remove() makes the diagnostic entry unreachable before it detaches
\* the panel from the bus.
C27_DebugfsRemovedBeforeDetach ==
    Done("remove") =>
        /\ Positions({"debugfs_remove"}) # {}
        /\ \A i \in Positions({"debugfs_remove"}),
              j \in Positions({"mipi_dsi_detach", "drm_panel_remove"}) :
              i < j

\* ------------------------------------------------------------------------
\* C28
\* ------------------------------------------------------------------------

\* C28: after probe the mode flags are the descriptor's, without the
\* low-power flag; every enable(), failed or not, adds the low-power flag
\* and nothing else; disable() and unprepare() leave the mode flags as
\* they are; the lane count and the pixel format never change.
C28_ModeFlags ==
    /\ lanes = desc.lanes
    /\ format = desc.format
    /\ last = "none" =>
          /\ mode_flags = desc.mode_flags
          /\ "MIPI_DSI_MODE_LPM" \notin mode_flags
    /\ Done("enable") =>
          mode_flags = pre.mode_flags \cup {"MIPI_DSI_MODE_LPM"}
    /\ (Done("disable") \/ Done("unprepare")) =>
          mode_flags = pre.mode_flags

\* The first enable() after probe has failed and the low-power flag is set.
C28_Witness ==
    /\ Done("enable")
    /\ ret < 0
    /\ pre.mode_flags = desc.mode_flags
    /\ "MIPI_DSI_MODE_LPM" \notin pre.mode_flags
    /\ "MIPI_DSI_MODE_LPM" \in mode_flags

\* ------------------------------------------------------------------------
\* C24
\* ------------------------------------------------------------------------

\* C24: panel operations never run concurrently: while one thread is
\* inside prepare, enable, disable, unprepare or all_pixels_on, no other
\* thread is inside one, so their bus transactions and rail enables never
\* interleave.
C24_OperationsSerial == ~(Running(pc) /\ Running(other.pc))

====
